---- MODULE Spec2Model ----
(***************************************************************************)
(* Model of services/jni/com_android_server_BatteryService.cpp:            *)
(* one-time discovery of the power-supply pseudo-files                     *)
(* (register_android_server_BatteryService) and the poll                   *)
(* (android_server_BatteryService_update) that fills the fields of the     *)
(* caller's BatteryService object.                                         *)
(*                                                                         *)
(* Text is a sequence of one-character strings, so that the first byte, a  *)
(* trailing newline and the decimal digits of a file are what the code     *)
(* sees.  A path is <<directory, file>> (the "%s/%s/<file>" under          *)
(* POWER_SUPPLY_PATH) or the empty path <<>> (an empty String8).           *)
(***************************************************************************)
EXTENDS Integers, Sequences, FiniteSets, TLC

VARIABLES
    rootOpen,         \* opendir(POWER_SUPPLY_PATH) succeeds
    listing,          \* the names readdir() returns, in its order
    fs,               \* readable files: path -> content
    gPaths,           \* PowerSupplyPaths gPaths
    gChargerNames,    \* Vector<String8> gChargerNames
    gVoltageDivisor,  \* int gVoltageDivisor
    obj,              \* the fields of the BatteryService object
    pc,               \* "boot", "idle", "polled" (update returned, files as read), "aborted"
    changes           \* file changes made by the kernel since start

vars == <<rootOpen, listing, fs, gPaths, gChargerNames, gVoltageDivisor, obj, pc, changes>>

-----------------------------------------------------------------------------
(* Bounds of the model *)

\* file changes the environment makes in one behaviour
MaxChanges == 3

-----------------------------------------------------------------------------
(* Text helpers *)

NL == "\n"

Digits == {"0", "1", "2", "3", "4", "5", "6", "7", "8", "9"}

DigitVal(c) ==
    CASE c = "0" -> 0 [] c = "1" -> 1 [] c = "2" -> 2 [] c = "3" -> 3
      [] c = "4" -> 4 [] c = "5" -> 5 [] c = "6" -> 6 [] c = "7" -> 7
      [] c = "8" -> 8 [] c = "9" -> 9

\* isspace() of the C locale, for the characters the model uses
Spaces == {" ", NL, "\t"}

T_Battery  == <<"B", "a", "t", "t", "e", "r", "y">>
T_Mains    == <<"M", "a", "i", "n", "s">>
T_USB      == <<"U", "S", "B">>
T_USB_DCP  == <<"U", "S", "B", "_", "D", "C", "P">>
T_USB_CDP  == <<"U", "S", "B", "_", "C", "D", "P">>
T_USB_ACA  == <<"U", "S", "B", "_", "A", "C", "A">>
T_Wireless == <<"W", "i", "r", "e", "l", "e", "s", "s">>

H_Overheat    == <<"O", "v", "e", "r", "h", "e", "a", "t">>
H_OverVoltage == <<"O", "v", "e", "r", " ", "v", "o", "l", "t", "a", "g", "e">>
H_Unspecified == <<"U", "n", "s", "p", "e", "c", "i", "f", "i", "e", "d", " ",
                   "f", "a", "i", "l", "u", "r", "e">>
H_Unknown     == <<"U", "n", "k", "n", "o", "w", "n">>

-----------------------------------------------------------------------------
(* Paths *)

NoPath == <<>>

Path(name, file) == <<name, file>>

isEmpty(path) == path = NoPath

\* access(path, R_OK) == 0
access(path) == path \in DOMAIN fs

-----------------------------------------------------------------------------
(* Constants of android.os.BatteryManager, looked up at registration *)

gConstants ==
    [statusUnknown |-> 1, statusCharging |-> 2, statusDischarging |-> 3,
     statusNotCharging |-> 4, statusFull |-> 5,
     healthUnknown |-> 1, healthGood |-> 2, healthOverheat |-> 3,
     healthDead |-> 4, healthOverVoltage |-> 5,
     healthUnspecifiedFailure |-> 6, healthCold |-> 7]

\* enum PowerSupplyType
ANDROID_POWER_SUPPLY_TYPE_UNKNOWN  == "UNKNOWN"
ANDROID_POWER_SUPPLY_TYPE_AC       == "AC"
ANDROID_POWER_SUPPLY_TYPE_USB      == "USB"
ANDROID_POWER_SUPPLY_TYPE_WIRELESS == "WIRELESS"
ANDROID_POWER_SUPPLY_TYPE_BATTERY  == "BATTERY"

-----------------------------------------------------------------------------
(* String classifiers *)

\* getBatteryHealth deciding 'O' on the first character alone
getBatteryHealth_firstChar(status) ==
    IF status = <<>> THEN gConstants.healthUnknown
    ELSE CASE status[1] = "C" -> gConstants.healthCold
           [] status[1] = "D" -> gConstants.healthDead
           [] status[1] = "G" -> gConstants.healthGood
           [] status[1] = "O" ->
                IF status = H_OverVoltage THEN gConstants.healthOverVoltage
                ELSE gConstants.healthOverheat
           [] status[1] = "U" ->
                IF status = H_Unspecified THEN gConstants.healthUnspecifiedFailure
                ELSE gConstants.healthUnknown
           [] OTHER -> gConstants.healthUnknown

\* status is never empty here: the caller classifies only when the read
\* yielded data; an empty buffer has status[0] = NUL, the default case.
getBatteryStatus(status) ==
    IF status = <<>> THEN gConstants.statusUnknown
    ELSE CASE status[1] = "C" -> gConstants.statusCharging
           [] status[1] = "D" -> gConstants.statusDischarging
           [] status[1] = "F" -> gConstants.statusFull
           [] status[1] = "N" -> gConstants.statusNotCharging
           [] status[1] = "U" -> gConstants.statusUnknown
           [] OTHER -> gConstants.statusUnknown

getBatteryHealth(status) ==
    IF status = <<>> THEN gConstants.healthUnknown
    ELSE CASE status[1] = "C" -> gConstants.healthCold
           [] status[1] = "D" -> gConstants.healthDead
           [] status[1] = "G" -> gConstants.healthGood
           [] status[1] = "O" ->
                IF status = H_Overheat THEN gConstants.healthOverheat
                ELSE IF status = H_OverVoltage THEN gConstants.healthOverVoltage
                ELSE gConstants.healthUnknown
           [] status[1] = "U" ->
                IF status = H_Unspecified THEN gConstants.healthUnspecifiedFailure
                ELSE IF status = H_Unknown THEN gConstants.healthUnknown
                ELSE gConstants.healthUnknown
           [] OTHER -> gConstants.healthUnknown

-----------------------------------------------------------------------------
(* Reading files *)

RECURSIVE StripNewlines(_)
\* while (count > 0 && buf[count-1] == '\n') count--;
StripNewlines(s) ==
    IF Len(s) > 0 /\ s[Len(s)] = NL THEN StripNewlines(SubSeq(s, 1, Len(s) - 1))
    ELSE s

\* The result of readFromFile: count is the returned value, buf the text
\* left in the buffer.  read() takes at most size bytes; every text of the
\* model is shorter than the buffers, so buf[count] = '\0' stays inside them,
\* and every number fits a jint, so atoi is defined.
readFromFile(path, size) ==
    IF isEmpty(path) THEN [count |-> -1, buf |-> <<>>]
    ELSE IF path \notin DOMAIN fs THEN [count |-> -1, buf |-> <<>>]
    ELSE LET got == SubSeq(fs[path], 1, IF Len(fs[path]) < size THEN Len(fs[path]) ELSE size)
             txt == StripNewlines(got)
         IN  IF Len(got) > 0 THEN [count |-> Len(txt), buf |-> txt]
             ELSE [count |-> 0, buf |-> <<>>]

RECURSIVE atoiDigits(_, _, _)
atoiDigits(s, i, acc) ==
    IF i > Len(s) \/ s[i] \notin Digits THEN acc
    ELSE atoiDigits(s, i + 1, acc * 10 + DigitVal(s[i]))

RECURSIVE atoiSkip(_, _)
atoiSkip(s, i) == IF i <= Len(s) /\ s[i] \in Spaces THEN atoiSkip(s, i + 1) ELSE i

\* atoi(3): leading white space, an optional sign, decimal digits
atoi(s) ==
    LET i == atoiSkip(s, 1)
    IN  IF i > Len(s) THEN 0
        ELSE IF s[i] = "-" THEN 0 - atoiDigits(s, i + 1, 0)
        ELSE IF s[i] = "+" THEN atoiDigits(s, i + 1, 0)
        ELSE atoiDigits(s, i, 0)

-----------------------------------------------------------------------------
(* 32-bit arithmetic of jint *)

\* a * m in 32-bit two's complement (the product wraps), for a in the jint
\* range and 0 <= m <= 101, computed on 16-bit halves.
Mul32(a, m) ==
    LET xh == a \div 2^16
        xl == a % 2^16
        p  == m * xl
        lo == p % 2^16
        hi == (m * xh + (p \div 2^16)) % 2^16
    IN  IF hi >= 2^15 THEN (hi - 2^16) * 2^16 + lo ELSE hi * 2^16 + lo

Abs(n) == IF n < 0 THEN 0 - n ELSE n

\* n / d of C for d # 0: the quotient truncated toward zero
TruncDiv(n, d) ==
    IF (n < 0) = (d < 0) THEN Abs(n) \div Abs(d) ELSE 0 - (Abs(n) \div Abs(d))

\* n / d of C on jint.  Division by zero is undefined behaviour: the builds
\* either trap (SIGFPE ends the process) or, where the hardware divide
\* instruction does not trap, deliver 0.
IntDivide(n, d) ==
    IF d = 0 THEN {[trap |-> TRUE, value |-> 0], [trap |-> FALSE, value |-> 0]}
    ELSE {[trap |-> FALSE, value |-> TruncDiv(n, d)]}

-----------------------------------------------------------------------------
(* Field setters: each returns the object after the call *)

\* const int SIZE of setBooleanField
BoolSIZE == 16
\* const int SIZE of the other readers
SIZE == 128

setBooleanField(o, path, fieldID) ==
    LET r == readFromFile(path, BoolSIZE)
        value == IF r.count > 0 THEN r.buf[1] # "0" ELSE FALSE
    IN  [o EXCEPT ![fieldID] = value]

\* setIntField that writes only when the read yielded data
setIntField_skipOnFailure(o, path, fieldID) ==
    LET r == readFromFile(path, SIZE)
    IN  IF r.count > 0 THEN [o EXCEPT ![fieldID] = atoi(r.buf)] ELSE o

setIntField(o, path, fieldID) ==
    LET r == readFromFile(path, SIZE)
        value == IF r.count > 0 THEN atoi(r.buf) ELSE 0
    IN  [o EXCEPT ![fieldID] = value]

setVoltageField(o, path, fieldID) ==
    LET r == readFromFile(path, SIZE)
        value == IF r.count > 0 THEN TruncDiv(atoi(r.buf), gVoltageDivisor) ELSE 0
    IN  [o EXCEPT ![fieldID] = value]

\* setChargeLevel that writes 0 when a read fails
setChargeLevel_zeroOnFailure(o, fieldID) ==
    LET r1 == readFromFile(gPaths.batteryChargeNowPath, SIZE)
        r2 == readFromFile(gPaths.batteryChargeFullPath, SIZE)
    IN  IF r1.count > 0 /\ r2.count > 0
        THEN { [trap |-> q.trap,
                obj  |-> IF q.trap THEN o ELSE [o EXCEPT ![fieldID] = q.value]] :
               q \in IntDivide(Mul32(atoi(r1.buf), 100), atoi(r2.buf)) }
        ELSE { [trap |-> FALSE, obj |-> [o EXCEPT ![fieldID] = 0]] }

\* The outcomes of setChargeLevel: [trap, obj].  The second read happens only
\* if the first yielded data (&&).
setChargeLevel(o, fieldID) ==
    LET r1 == readFromFile(gPaths.batteryChargeNowPath, SIZE)
        r2 == readFromFile(gPaths.batteryChargeFullPath, SIZE)
    IN  IF r1.count > 0 /\ r2.count > 0
        THEN { [trap |-> q.trap,
                obj  |-> IF q.trap THEN o ELSE [o EXCEPT ![fieldID] = q.value]] :
               q \in IntDivide(Mul32(atoi(r1.buf), 100), atoi(r2.buf)) }
        ELSE { [trap |-> FALSE, obj |-> o] }

readPowerSupplyType(path) ==
    LET r == readFromFile(path, SIZE)
        buf == IF r.count > 0 /\ r.buf[r.count] = NL
               THEN SubSeq(r.buf, 1, r.count - 1) ELSE r.buf
    IN  IF r.count <= 0 THEN ANDROID_POWER_SUPPLY_TYPE_UNKNOWN
        ELSE IF buf = T_Battery THEN ANDROID_POWER_SUPPLY_TYPE_BATTERY
        ELSE IF buf \in {T_Mains, T_USB_DCP, T_USB_CDP, T_USB_ACA}
             THEN ANDROID_POWER_SUPPLY_TYPE_AC
        ELSE IF buf = T_USB THEN ANDROID_POWER_SUPPLY_TYPE_USB
        ELSE IF buf = T_Wireless THEN ANDROID_POWER_SUPPLY_TYPE_WIRELESS
        ELSE ANDROID_POWER_SUPPLY_TYPE_UNKNOWN

-----------------------------------------------------------------------------
(* update *)

\* One iteration of the charger loop of update: the three local flags
\* <<acOnline, usbOnline, wirelessOnline>> after looking at charger name.
chargerStep(name, flags) ==
    LET r == readFromFile(Path(name, "online"), SIZE)
    IN  IF r.count > 0 /\ r.buf[1] # "0"
        THEN LET t == readPowerSupplyType(Path(name, "type"))
             IN  CASE t = ANDROID_POWER_SUPPLY_TYPE_AC -> [flags EXCEPT !.ac = TRUE]
                   [] t = ANDROID_POWER_SUPPLY_TYPE_USB -> [flags EXCEPT !.usb = TRUE]
                   [] t = ANDROID_POWER_SUPPLY_TYPE_WIRELESS ->
                          [flags EXCEPT !.wireless = TRUE]
                   [] OTHER -> flags
        ELSE flags

RECURSIVE chargerLoop(_, _)
\* for (i = 0; i < gChargerNames.size(); i++)
chargerLoop(i, flags) ==
    IF i > Len(gChargerNames) THEN flags
    ELSE chargerLoop(i + 1, chargerStep(gChargerNames[i], flags))

\* onlineFlags without the `if (i == 0)` fallback
onlineFlags_noFallback ==
    chargerLoop(1, [ac |-> FALSE, usb |-> FALSE, wireless |-> FALSE])

\* The online flags update writes
onlineFlags ==
    LET flags == chargerLoop(1, [ac |-> FALSE, usb |-> FALSE, wireless |-> FALSE])
    IN  IF Len(gChargerNames) = 0 THEN [flags EXCEPT !.ac = TRUE] ELSE flags

\* updateLevel without the test of batteryPresentPath
updateLevel_noPresentTest(o) ==
    IF isEmpty(gPaths.batteryCapacityPath)
    THEN setChargeLevel(o, "mBatteryLevel")
    ELSE { [trap |-> FALSE,
            obj |-> setIntField(o, gPaths.batteryCapacityPath, "mBatteryLevel")] }

\* The level part of update
updateLevel(o) ==
    IF isEmpty(gPaths.batteryPresentPath)
    THEN { [trap |-> FALSE, obj |-> [o EXCEPT !.mBatteryLevel = 100]] }
    ELSE IF isEmpty(gPaths.batteryCapacityPath)
         THEN setChargeLevel(o, "mBatteryLevel")
         ELSE { [trap |-> FALSE,
                 obj |-> setIntField(o, gPaths.batteryCapacityPath, "mBatteryLevel")] }

\* update from the voltage field to its return
updateRest(o) ==
    LET o1 == setVoltageField(o, gPaths.batteryVoltagePath, "mBatteryVoltage")
        o2 == setIntField(o1, gPaths.batteryTemperaturePath, "mBatteryTemperature")
        rs == readFromFile(gPaths.batteryStatusPath, SIZE)
        o3 == [o2 EXCEPT !.mBatteryStatus =
                  IF rs.count > 0 THEN getBatteryStatus(rs.buf)
                  ELSE gConstants.statusUnknown]
        rh == readFromFile(gPaths.batteryHealthPath, SIZE)
        o4 == IF rh.count > 0
              THEN [o3 EXCEPT !.mBatteryHealth = getBatteryHealth(rh.buf)] ELSE o3
        rt == readFromFile(gPaths.batteryTechnologyPath, SIZE)
        o5 == IF rt.count > 0 THEN [o4 EXCEPT !.mBatteryTechnology = rt.buf] ELSE o4
        fl == onlineFlags
    IN  [o5 EXCEPT !.mAcOnline = fl.ac, !.mUsbOnline = fl.usb,
                   !.mWirelessOnline = fl.wireless]

\* The outcomes of one call of update on object o: it returns with the
\* object filled, or the process dies in the division of setChargeLevel.
updateOutcomes(o) ==
    LET o1 == setBooleanField(o, gPaths.batteryPresentPath, "mBatteryPresent")
    IN  { IF r.trap THEN r ELSE [trap |-> FALSE, obj |-> updateRest(r.obj)] :
          r \in updateLevel(o1) }

\* update that forgets a charger whose online file cannot be opened
update_dropsCharger ==
    /\ pc \in {"idle", "polled"}
    /\ \E r \in updateOutcomes(obj) :
          /\ obj' = r.obj
          /\ pc' = IF r.trap THEN "aborted" ELSE "polled"
    /\ gChargerNames' =
          SelectSeq(gChargerNames, LAMBDA name : Path(name, "online") \in DOMAIN fs)
    /\ UNCHANGED <<rootOpen, listing, fs, gPaths, gVoltageDivisor, changes>>

update ==
    /\ pc \in {"idle", "polled"}
    /\ \E r \in updateOutcomes(obj) :
          /\ obj' = r.obj
          /\ pc' = IF r.trap THEN "aborted" ELSE "polled"
    /\ UNCHANGED <<rootOpen, listing, fs, gPaths, gChargerNames, gVoltageDivisor, changes>>

-----------------------------------------------------------------------------
(* Discovery: register_android_server_BatteryService *)

\* The discovery results g = [paths, chargers, divisor] after the
\* ANDROID_POWER_SUPPLY_TYPE_BATTERY case of the switch for directory name.
\* The capacity group of the case:
discoverCapacity(name, paths) ==
    IF access(Path(name, "capacity"))
    THEN [paths EXCEPT !.batteryCapacityPath = Path(name, "capacity")]
    ELSE IF access(Path(name, "charge_now"))
         THEN LET p1 == [paths EXCEPT !.batteryChargeNowPath = Path(name, "charge_now")]
              IN  IF access(Path(name, "charge_full"))
                  THEN [p1 EXCEPT !.batteryChargeFullPath = Path(name, "charge_full")]
                  ELSE p1
         ELSE IF access(Path(name, "energy_now"))
              THEN LET p1 == [paths EXCEPT !.batteryChargeNowPath = Path(name, "energy_now")]
                   IN  IF access(Path(name, "energy_full"))
                       THEN [p1 EXCEPT !.batteryChargeFullPath = Path(name, "energy_full")]
                       ELSE p1
              ELSE paths

\* The voltage group: the path and the divisor
discoverVoltage(name, g) ==
    IF access(Path(name, "voltage_now"))
    THEN [g EXCEPT !.paths.batteryVoltagePath = Path(name, "voltage_now"),
                   !.divisor = 1000]
    ELSE IF access(Path(name, "batt_vol"))
         THEN [g EXCEPT !.paths.batteryVoltagePath = Path(name, "batt_vol")]
         ELSE g

discoverTemperature(name, paths) ==
    IF access(Path(name, "temp"))
    THEN [paths EXCEPT !.batteryTemperaturePath = Path(name, "temp")]
    ELSE IF access(Path(name, "batt_temp"))
         THEN [paths EXCEPT !.batteryTemperaturePath = Path(name, "batt_temp")]
         ELSE paths

\* if (access(path, R_OK) == 0) gPaths.<field> = path;
discoverSingle(name, file, field, paths) ==
    IF access(Path(name, file)) THEN [paths EXCEPT ![field] = Path(name, file)]
    ELSE paths

discoverBattery(name, g) ==
    LET p1 == discoverSingle(name, "status", "batteryStatusPath", g.paths)
        p2 == discoverSingle(name, "health", "batteryHealthPath", p1)
        p3 == discoverSingle(name, "present", "batteryPresentPath", p2)
        p4 == discoverCapacity(name, p3)
        g5 == discoverVoltage(name, [g EXCEPT !.paths = p4])
        p6 == discoverTemperature(name, g5.paths)
        p7 == discoverSingle(name, "technology", "batteryTechnologyPath", p6)
    IN  [g5 EXCEPT !.paths = p7]

\* The body of the readdir loop for one entry
discoverEntry(name, g) ==
    IF name \in {".", ".."} THEN g
    ELSE LET t == readPowerSupplyType(Path(name, "type"))
         IN  IF t \in {ANDROID_POWER_SUPPLY_TYPE_AC, ANDROID_POWER_SUPPLY_TYPE_USB,
                       ANDROID_POWER_SUPPLY_TYPE_WIRELESS}
             THEN IF access(Path(name, "online"))
                  THEN [g EXCEPT !.chargers = Append(@, name)]
                  ELSE g
             ELSE IF t = ANDROID_POWER_SUPPLY_TYPE_BATTERY
                  THEN discoverBattery(name, g)
                  ELSE g

RECURSIVE discoverLoop(_, _)
\* while ((entry = readdir(dir)))
discoverLoop(i, g) ==
    IF i > Len(listing) THEN g
    ELSE discoverLoop(i + 1, discoverEntry(listing[i], g))

\* The globals as the static initialisers leave them
NoPaths ==
    [batteryStatusPath |-> NoPath, batteryHealthPath |-> NoPath,
     batteryPresentPath |-> NoPath, batteryCapacityPath |-> NoPath,
     batteryChargeNowPath |-> NoPath, batteryChargeFullPath |-> NoPath,
     batteryVoltagePath |-> NoPath, batteryTemperaturePath |-> NoPath,
     batteryTechnologyPath |-> NoPath]

\* The lookups of the Java class, its fields and the BatteryManager constants
\* are taken to succeed.
register ==
    /\ pc = "boot"
    /\ LET g0 == [paths |-> gPaths, chargers |-> gChargerNames, divisor |-> gVoltageDivisor]
           g  == IF rootOpen THEN discoverLoop(1, g0) ELSE g0
       IN  /\ gPaths' = g.paths
           /\ gChargerNames' = g.chargers
           /\ gVoltageDivisor' = g.divisor
    /\ pc' = "idle"
    /\ UNCHANGED <<rootOpen, listing, fs, obj, changes>>

-----------------------------------------------------------------------------
(* The files of the power-supply directories *)

\* The files of one directory: files is a function file name -> text
Dir(name, files) == [p \in {Path(name, f) : f \in DOMAIN files} |-> files[p[2]]]

EmptyFs == [p \in {} |-> <<>>]

V_1        == <<"1", NL>>
V_0        == <<"0", NL>>
V_3        == <<"3", NL>>
V_42       == <<"4", "2", NL>>
V_50       == <<"5", "0", NL>>
V_200      == <<"2", "0", "0", NL>>
V_250      == <<"2", "5", "0", NL>>
V_Minus15  == <<"-", "1", "5", NL>>
V_3700     == <<"3", "7", "0", "0", NL>>
V_3700000  == <<"3", "7", "0", "0", "0", "0", "0", NL>>
V_4123456  == <<"4", "1", "2", "3", "4", "5", "6", NL>>
V_21474836 == <<"2", "1", "4", "7", "4", "8", "3", "6", NL>>
V_21474837 == <<"2", "1", "4", "7", "4", "8", "3", "7", NL>>
V_30000000 == <<"3", "0", "0", "0", "0", "0", "0", "0", NL>>
V_50000000 == <<"5", "0", "0", "0", "0", "0", "0", "0", NL>>
V_Blank    == <<NL>>
V_Text     == <<"n", "/", "a", NL>>

S_Charging    == <<"C", "h", "a", "r", "g", "i", "n", "g", NL>>
S_Discharging == <<"D", "i", "s", "c", "h", "a", "r", "g", "i", "n", "g", NL>>
S_Full        == <<"F", "u", "l", "l", NL>>
S_Odd         == <<"?", NL>>

HF_Good     == <<"G", "o", "o", "d", NL>>
HF_Overheat == H_Overheat \o <<NL>>
HF_Other    == <<"O", "t", "h", "e", "r", NL>>

Tech_LiIon == <<"L", "i", "-", "i", "o", "n", NL>>
Tech_NiMH  == <<"N", "i", "M", "H">>

TF_Junk == <<"J", "u", "n", "k", NL>>

\* The texts the kernel may put in a polled file
ContentsOf(file) ==
    CASE file = "present" -> {V_1, V_0}
      [] file = "capacity" -> {V_42, V_3}
      [] file \in {"charge_now", "energy_now"} -> {V_50, V_1, V_Blank}
      [] file \in {"charge_full", "energy_full"} -> {V_200, V_3, V_0}
      [] file = "voltage_now" -> {V_3700000, V_4123456}
      [] file = "batt_vol" -> {V_3700, V_Blank}
      [] file \in {"temp", "batt_temp"} -> {V_250, V_Minus15}
      [] file = "status" -> {S_Charging, S_Full, S_Odd}
      [] file = "health" -> {HF_Good, HF_Overheat, HF_Other}
      [] file = "technology" -> {Tech_LiIon, Tech_NiMH}
      [] file = "online" -> {V_1, V_0}
      [] file = "type" -> {T_Mains \o <<NL>>, T_USB \o <<NL>>, T_Wireless \o <<NL>>, TF_Junk}

\* The paths update opens
PolledPaths ==
    ({gPaths[k] : k \in DOMAIN gPaths} \ {NoPath})
      \cup {Path(gChargerNames[i], "online") : i \in 1..Len(gChargerNames)}
      \cup {Path(gChargerNames[i], "type") : i \in 1..Len(gChargerNames)}

\* The kernel rewrites a polled file between two polls
fileWrite ==
    /\ pc \in {"idle", "polled"}
    /\ changes < MaxChanges
    /\ \E p \in PolledPaths : \E text \in ContentsOf(p[2]) :
          /\ ~(p \in DOMAIN fs /\ fs[p] = text)
          /\ fs' = (p :> text) @@ fs
    /\ changes' = changes + 1
    /\ pc' = "idle"
    /\ UNCHANGED <<rootOpen, listing, gPaths, gChargerNames, gVoltageDivisor, obj>>

\* A polled file disappears (the supply is unplugged, the driver unloads)
fileRemove ==
    /\ pc \in {"idle", "polled"}
    /\ changes < MaxChanges
    /\ \E p \in PolledPaths \cap DOMAIN fs :
          fs' = [q \in DOMAIN fs \ {p} |-> fs[q]]
    /\ changes' = changes + 1
    /\ pc' = "idle"
    /\ UNCHANGED <<rootOpen, listing, gPaths, gChargerNames, gVoltageDivisor, obj>>

-----------------------------------------------------------------------------
(* Initial states *)

\* The fields of a new BatteryService object (Java defaults; <<>> is null)
JavaDefault ==
    [mAcOnline |-> FALSE, mUsbOnline |-> FALSE, mWirelessOnline |-> FALSE,
     mBatteryStatus |-> 0, mBatteryHealth |-> 0, mBatteryPresent |-> FALSE,
     mBatteryLevel |-> 0, mBatteryVoltage |-> 0, mBatteryTemperature |-> 0,
     mBatteryTechnology |-> <<>>]

\* An object that holds values of an earlier life
Stale ==
    [mAcOnline |-> TRUE, mUsbOnline |-> TRUE, mWirelessOnline |-> TRUE,
     mBatteryStatus |-> gConstants.statusFull, mBatteryHealth |-> gConstants.healthDead,
     mBatteryPresent |-> TRUE, mBatteryLevel |-> 77, mBatteryVoltage |-> 9999,
     mBatteryTemperature |-> 999, mBatteryTechnology |-> <<"o", "l", "d">>]

Charger(name, type, online) == Dir(name, ("type" :> type) @@ ("online" :> online))

\* A phone: mains and USB chargers, a battery that reports charge_now/charge_full
PhoneFs ==
    Charger("ac", T_Mains \o <<NL>>, V_1) @@ Charger("usb", T_USB \o <<NL>>, V_0)
      @@ Dir("battery",
             ("type" :> T_Battery \o <<NL>>) @@ ("present" :> V_1)
               @@ ("charge_now" :> V_50) @@ ("charge_full" :> V_200)
               @@ ("voltage_now" :> V_3700000) @@ ("temp" :> V_250)
               @@ ("status" :> S_Charging) @@ ("health" :> HF_Good)
               @@ ("technology" :> Tech_LiIon))

\* An older device: capacity, batt_vol, batt_temp
LegacyFs ==
    Dir("battery",
        ("type" :> T_Battery \o <<NL>>) @@ ("present" :> V_1) @@ ("capacity" :> V_42)
          @@ ("batt_vol" :> V_3700) @@ ("batt_temp" :> V_250)
          @@ ("status" :> S_Discharging))
      @@ Charger("ac", T_USB_DCP \o <<NL>>, V_0)

\* A battery without a present file, no charger
NoPresentFs ==
    Dir("BAT0",
        ("type" :> T_Battery \o <<NL>>) @@ ("capacity" :> V_42)
          @@ ("charge_now" :> V_50) @@ ("charge_full" :> V_200)
          @@ ("voltage_now" :> V_3700000) @@ ("status" :> S_Full))

\* A battery that reports energy_now/energy_full, a wireless charger
EnergyFs ==
    Dir("BAT0",
        ("type" :> T_Battery \o <<NL>>) @@ ("present" :> V_1)
          @@ ("energy_now" :> V_1) @@ ("energy_full" :> V_3)
          @@ ("health" :> HF_Overheat))
      @@ Charger("dock", T_Wireless \o <<NL>>, V_1)

InitGlobals ==
    /\ gPaths = NoPaths
    /\ gChargerNames = <<>>
    /\ gVoltageDivisor = 1
    /\ pc = "boot"
    /\ changes = 0

Init ==
    /\ InitGlobals
    /\ obj \in {JavaDefault, Stale}
    /\ \/ rootOpen = TRUE /\ listing = <<".", "..", "ac", "usb", "battery">> /\ fs = PhoneFs
       \/ rootOpen = TRUE /\ listing = <<".", "..", "battery", "ac">> /\ fs = LegacyFs
       \/ rootOpen = TRUE /\ listing = <<".", "..", "BAT0">> /\ fs = NoPresentFs
       \/ rootOpen = TRUE /\ listing = <<"dock", ".", "..", "BAT0">> /\ fs = EnergyFs
       \/ rootOpen = TRUE /\ listing = <<".", "..">> /\ fs = EmptyFs
       \/ rootOpen = FALSE /\ listing = <<>> /\ fs = EmptyFs

Next == register \/ update \/ fileWrite \/ fileRemove

Spec == Init /\ [][Next]_vars

-----------------------------------------------------------------------------
(* Discovery over every layout of the directories, the files then static *)

\* directories under the root
MaxDirs == 2

DirNames == <<"sup0", "sup1", "sup2", "sup3">>

\* What each file holds when a layout has it
LayoutText(file) ==
    CASE file = "capacity" -> V_42
      [] file = "charge_now" -> V_50
      [] file = "charge_full" -> V_200
      [] file = "energy_now" -> V_1
      [] file = "energy_full" -> V_3
      [] file = "voltage_now" -> V_3700000
      [] file = "batt_vol" -> V_3700

LevelVoltageFiles ==
    {"capacity", "charge_now", "charge_full", "energy_now", "energy_full",
     "voltage_now", "batt_vol"}

\* The other files of a battery directory: all of them, or batt_temp alone
RichFiles ==
    ("present" :> V_1) @@ ("status" :> S_Charging) @@ ("health" :> HF_Good)
      @@ ("temp" :> V_250) @@ ("technology" :> Tech_LiIon)

BareFiles == "batt_temp" :> V_Minus15

BatteryLayouts(name) ==
    { Dir(name, ("type" :> T_Battery \o <<NL>>) @@ others @@ [f \in S |-> LayoutText(f)]) :
        others \in {RichFiles, BareFiles}, S \in SUBSET LevelVoltageFiles }

ChargerLayouts(name) ==
    { Charger(name, type \o <<NL>>, online) :
        type \in {T_Mains, T_USB, T_Wireless}, online \in {V_1, V_0} }
      \cup { Dir(name, "type" :> T_USB_ACA), Dir(name, "type" :> TF_Junk),
             Dir(name, "uevent" :> V_Blank) }

DirLayouts(name) == BatteryLayouts(name) \cup ChargerLayouts(name)

RECURSIVE FsLayouts(_)
\* The file systems with directories DirNames[1..n]
FsLayouts(n) ==
    IF n = 0 THEN {EmptyFs}
    ELSE { f @@ d : f \in FsLayouts(n - 1), d \in DirLayouts(DirNames[n]) }

InitLayouts ==
    /\ rootOpen = TRUE
    /\ \E n \in 0..MaxDirs :
          /\ listing = <<".", "..">> \o SubSeq(DirNames, 1, n)
          /\ fs \in FsLayouts(n)

\* One battery, every pair of readings of its now and full files
NowTexts ==
    {V_0, V_1, V_50, V_200, V_21474836, V_21474837, V_30000000, V_Blank, V_Text}

FullTexts == {V_0, V_3, V_200, V_21474837, V_50000000, V_Blank, V_Text}

InitReadings ==
    /\ rootOpen = TRUE
    /\ listing = <<"battery", ".", "..">>
    /\ \E family \in {"charge", "energy"}, now \in NowTexts, full \in FullTexts :
          fs = Dir("battery",
                   ("type" :> T_Battery) @@ ("present" :> V_1)
                     @@ ((family \o "_now") :> now) @@ ((family \o "_full") :> full))

InitDiscovery ==
    /\ InitGlobals
    /\ obj = JavaDefault
    /\ (InitLayouts \/ InitReadings)

NextStatic == register \/ update

SpecDiscovery == InitDiscovery /\ [][NextStatic]_vars

-----------------------------------------------------------------------------
(* The health file holding every short text *)

\* length of the enumerated health texts
MaxHealthLen == 3

HealthAlphabet == {"C", "D", "G", "O", "U", "x"}

RECURSIVE TextsOfLen(_)
TextsOfLen(n) ==
    IF n = 0 THEN {<<>>}
    ELSE { <<c>> \o t : c \in HealthAlphabet, t \in TextsOfLen(n - 1) }

HealthNames ==
    { <<"C", "o", "l", "d">>,
      <<"D", "e", "a", "d">>,
      <<"G", "o", "o", "d">>,
      <<"O", "v", "e", "r", "h", "e", "a", "t">>,
      <<"O", "v", "e", "r", " ", "v", "o", "l", "t", "a", "g", "e">>,
      <<"O", "t", "h", "e", "r">>,
      <<"O", "v", "e", "r", "h", "e", "a", "t", "e", "d">>,
      <<"O", "v", "e", "r">>,
      <<"U", "n", "s", "p", "e", "c", "i", "f", "i", "e", "d", " ", "f", "a", "i", "l", "u", "r", "e">>,
      <<"U", "n", "s", "p", "e", "c", "i", "f", "i", "e", "d">>,
      <<"U", "n", "k", "n", "o", "w", "n">>,
      <<"W", "a", "r", "m">> }

HealthTexts == UNION {TextsOfLen(n) : n \in 1..MaxHealthLen} \cup HealthNames

InitHealth ==
    /\ InitGlobals
    /\ obj \in {JavaDefault, Stale}
    /\ rootOpen = TRUE
    /\ listing = <<".", "..", "battery">>
    /\ \E text \in HealthTexts, end \in {<<>>, <<NL>>} :
          fs = Dir("battery",
                   ("type" :> T_Battery \o <<NL>>) @@ ("present" :> V_1)
                     @@ ("health" :> text \o end))

SpecHealth == InitHealth /\ [][NextStatic]_vars

-----------------------------------------------------------------------------
(* What a poll finds in a file, stated on the file itself *)

\* The text of the file without its trailing newlines
TextOf(path) == StripNewlines(fs[path])

\* The file is resolved, can be opened and holds more than newlines
Yields(path) == path # NoPath /\ path \in DOMAIN fs /\ TextOf(path) # <<>>

\* The level is computed from the now/full pair
PairMode == gPaths.batteryPresentPath # NoPath /\ gPaths.batteryCapacityPath = NoPath

PairYields == Yields(gPaths.batteryChargeNowPath) /\ Yields(gPaths.batteryChargeFullPath)

-----------------------------------------------------------------------------
(* C1 *)

\* C1 as stated: with no presence path resolved, every update leaves
\* batteryPresent = true and batteryLevel = 100.
C1_PresentForcedTrue ==
    (pc = "polled" /\ gPaths.batteryPresentPath = NoPath)
        => (obj.mBatteryPresent = TRUE /\ obj.mBatteryLevel = 100)

\* C1 as amended: with no presence path resolved, every update leaves
\* batteryPresent = false and batteryLevel = 100, whatever the capacity,
\* charge and energy files hold.
C1_PresentFalseLevel100 ==
    (pc = "polled" /\ gPaths.batteryPresentPath = NoPath)
        => (obj.mBatteryPresent = FALSE /\ obj.mBatteryLevel = 100)

\* A poll without presence path over a capacity file that has been rewritten
\* to 3, on an object that held batteryPresent = true before
C1_Witness ==
    /\ pc = "polled"
    /\ gPaths.batteryPresentPath = NoPath
    /\ Yields(gPaths.batteryCapacityPath)
    /\ atoi(TextOf(gPaths.batteryCapacityPath)) = 3
    /\ obj.mBatteryTechnology = Stale.mBatteryTechnology
    /\ obj.mBatteryPresent = FALSE
    /\ obj.mBatteryLevel = 100

-----------------------------------------------------------------------------
(* C2 *)

\* C2: every call of update runs to completion; the process never dies in it.
C2_UpdateNeverFails == pc # "aborted"

-----------------------------------------------------------------------------
(* C3 *)

\* C3: in pair mode a poll in which the now file or the full file cannot be
\* read, or yields no data, leaves batteryLevel as it was before the poll.
C3_LevelKeptOnFailure ==
    [][(pc' = "polled" /\ PairMode /\ ~PairYields)
          => obj'.mBatteryLevel = obj.mBatteryLevel]_vars

\* A poll computed 25 from 50/200, then one of the two files failed and the
\* next poll has returned: the level still is 25.
C3_Witness ==
    /\ pc = "polled"
    /\ PairMode
    /\ ~PairYields
    /\ obj.mBatteryLevel = 25

-----------------------------------------------------------------------------
(* C4 *)

\* C4: after discovery the voltage divisor matches the resolved voltage
\* file: 1000 for a voltage_now file, 1 for a batt_vol file.
C4_DivisorMatchesVoltageFile ==
    (pc # "boot" /\ gPaths.batteryVoltagePath # NoPath)
        => gVoltageDivisor =
              (IF gPaths.batteryVoltagePath[2] = "voltage_now" THEN 1000 ELSE 1)

-----------------------------------------------------------------------------
(* C5 *)

\* The only directory of the listing, when there is exactly one
OnlyDir == listing[3]

Readable(file) == Path(OnlyDir, file) \in DOMAIN fs

\* C5: for a single battery directory discovery resolves the level source by
\* ordered fallback: capacity; else charge_now + charge_full if both are
\* readable; else energy_now + energy_full if both are readable.
C5_OrderedFallback ==
    (pc # "boot" /\ listing = <<".", "..", "sup0">>
       /\ readPowerSupplyType(Path(OnlyDir, "type")) = ANDROID_POWER_SUPPLY_TYPE_BATTERY)
        => IF Readable("capacity")
           THEN gPaths.batteryCapacityPath = Path(OnlyDir, "capacity")
           ELSE IF Readable("charge_now") /\ Readable("charge_full")
                THEN /\ gPaths.batteryChargeNowPath = Path(OnlyDir, "charge_now")
                     /\ gPaths.batteryChargeFullPath = Path(OnlyDir, "charge_full")
                ELSE IF Readable("energy_now") /\ Readable("energy_full")
                     THEN /\ gPaths.batteryChargeNowPath = Path(OnlyDir, "energy_now")
                          /\ gPaths.batteryChargeFullPath = Path(OnlyDir, "energy_full")
                     ELSE TRUE

-----------------------------------------------------------------------------
(* C6 *)

\* Some recorded charger is online now and its type file classifies as type
OnlineOfType(type) ==
    \E i \in 1..Len(gChargerNames) :
        /\ Yields(Path(gChargerNames[i], "online"))
        /\ TextOf(Path(gChargerNames[i], "online"))[1] # "0"
        /\ readPowerSupplyType(Path(gChargerNames[i], "type")) = type

\* C6: after every update, acOnline is true if no charger was recorded, and
\* otherwise exactly when a recorded charger is online with type AC;
\* usbOnline and wirelessOnline are true exactly when a recorded charger is
\* online with type USB, resp. Wireless.
C6_OnlineFlags ==
    pc = "polled" =>
        /\ obj.mAcOnline =
              (gChargerNames = <<>> \/ OnlineOfType(ANDROID_POWER_SUPPLY_TYPE_AC))
        /\ obj.mUsbOnline = OnlineOfType(ANDROID_POWER_SUPPLY_TYPE_USB)
        /\ obj.mWirelessOnline = OnlineOfType(ANDROID_POWER_SUPPLY_TYPE_WIRELESS)

\* Two chargers recorded; the one recorded as mains now is online with a type
\* file that no longer classifies, the other is online as USB: only usbOnline.
C6_Witness ==
    /\ pc = "polled"
    /\ Len(gChargerNames) = 2
    /\ OnlineOfType(ANDROID_POWER_SUPPLY_TYPE_UNKNOWN)
    /\ obj.mUsbOnline
    /\ ~obj.mAcOnline
    /\ ~obj.mWirelessOnline

-----------------------------------------------------------------------------
(* C7 *)

\* C7: once discovery has run, no step changes the charger-name list, a
\* resolved path or the voltage divisor, whatever the files come to hold.
C7_DiscoveryResultsReadOnly ==
    [][pc # "boot" => /\ gPaths' = gPaths
                      /\ gChargerNames' = gChargerNames
                      /\ gVoltageDivisor' = gVoltageDivisor]_vars

\* A poll has returned after the voltage file was rewritten and a charger's
\* online file went away; the discovery results are those of the phone.
C7_Witness ==
    /\ pc = "polled"
    /\ changes >= 2
    /\ gChargerNames = <<"ac", "usb">>
    /\ Path("ac", "online") \notin DOMAIN fs
    /\ gPaths.batteryVoltagePath = Path("battery", "voltage_now")
    /\ fs[gPaths.batteryVoltagePath] = V_4123456
    /\ gVoltageDivisor = 1000
    /\ obj.mBatteryVoltage = 4123

-----------------------------------------------------------------------------
(* C8 *)

\* m * x as a two-digit number in base 2^16, for 0 <= x < 2^31, 0 <= m <= 101
Wide(x, m) ==
    <<m * (x \div 2^16) + ((m * (x % 2^16)) \div 2^16), (m * (x % 2^16)) % 2^16>>

WideLeq(a, b) == a[1] < b[1] \/ (a[1] = b[1] /\ a[2] <= b[2])

\* The truncated quotient now * 100 / full of the integers, for 0 <= now <= full, full > 0
ExactPercent(now, full) ==
    CHOOSE q \in 0..100 :
        /\ WideLeq(Wide(full, q), Wide(now, 100))
        /\ ~WideLeq(Wide(full, q + 1), Wide(now, 100))

\* C8: when both files of the pair yield data with 0 <= now <= full and
\* full > 0, the level written is the truncated quotient now * 100 / full, a
\* percentage in 0..100.
C8_PercentOfPair ==
    LET now  == atoi(TextOf(gPaths.batteryChargeNowPath))
        full == atoi(TextOf(gPaths.batteryChargeFullPath))
    IN  (pc = "polled" /\ PairMode /\ PairYields /\ 0 <= now /\ now <= full /\ full > 0)
            => obj.mBatteryLevel = ExactPercent(now, full)

-----------------------------------------------------------------------------
(* C9 *)

\* The health the claim gives a non-empty text
ClaimedHealth(text) ==
    CASE text[1] = "C" -> gConstants.healthCold
      [] text[1] = "D" -> gConstants.healthDead
      [] text[1] = "G" -> gConstants.healthGood
      [] text[1] = "O" /\ text = H_Overheat -> gConstants.healthOverheat
      [] text[1] = "O" /\ text = H_OverVoltage -> gConstants.healthOverVoltage
      [] text[1] = "U" /\ text = H_Unspecified -> gConstants.healthUnspecifiedFailure
      [] OTHER -> gConstants.healthUnknown

\* C9: the health a poll writes for a health file that yields data is
\* decided by the first character, with the full text for O and U.
C9_HealthClassifier ==
    (pc = "polled" /\ Yields(gPaths.batteryHealthPath))
        => obj.mBatteryHealth = ClaimedHealth(TextOf(gPaths.batteryHealthPath))

\* A poll of a health file holding "Other" on an object that held Dead
C9_Witness ==
    /\ pc = "polled"
    /\ Yields(gPaths.batteryHealthPath)
    /\ TextOf(gPaths.batteryHealthPath) = <<"O", "t", "h", "e", "r">>
    /\ obj.mBatteryTechnology = Stale.mBatteryTechnology
    /\ obj.mBatteryHealth = gConstants.healthUnknown

-----------------------------------------------------------------------------
(* C10 *)

\* The fields a poll writes whatever it reads, as the files are now
C10_Overwritten ==
    LET p == gPaths.batteryPresentPath
        v == gPaths.batteryVoltagePath
        t == gPaths.batteryTemperaturePath
        s == gPaths.batteryStatusPath
    IN  /\ obj.mBatteryPresent = (Yields(p) /\ TextOf(p)[1] # "0")
        /\ obj.mBatteryVoltage =
              (IF Yields(v) THEN TruncDiv(atoi(TextOf(v)), gVoltageDivisor) ELSE 0)
        /\ obj.mBatteryTemperature = (IF Yields(t) THEN atoi(TextOf(t)) ELSE 0)
        /\ obj.mBatteryStatus =
              (IF Yields(s) THEN getBatteryStatus(TextOf(s)) ELSE gConstants.statusUnknown)
        /\ obj.mAcOnline =
              (gChargerNames = <<>> \/ OnlineOfType(ANDROID_POWER_SUPPLY_TYPE_AC))
        /\ obj.mUsbOnline = OnlineOfType(ANDROID_POWER_SUPPLY_TYPE_USB)
        /\ obj.mWirelessOnline = OnlineOfType(ANDROID_POWER_SUPPLY_TYPE_WIRELESS)

\* What a poll does to batteryHealth and batteryTechnology
C10_WrittenOnData ==
    LET h == gPaths.batteryHealthPath
        t == gPaths.batteryTechnologyPath
    IN  /\ obj'.mBatteryHealth =
              (IF Yields(h) THEN getBatteryHealth(TextOf(h)) ELSE obj.mBatteryHealth)
        /\ obj'.mBatteryTechnology =
              (IF Yields(t) THEN TextOf(t) ELSE obj.mBatteryTechnology)

\* C10: after every update batteryPresent, batteryVoltage,
\* batteryTemperature, batteryStatus and the three online flags are functions
\* of the discovery results and the files (false, 0, Unknown without data);
\* batteryHealth and batteryTechnology are written when their file yields
\* data and keep their value otherwise.
C10_FieldsWritten ==
    /\ [](pc = "polled" => C10_Overwritten)
    /\ [][pc' = "polled" => C10_WrittenOnData]_vars

\* A poll on an object of an earlier life, with no temperature, voltage or
\* technology data: the first two are 0, the technology is the old one.
C10_Witness ==
    /\ pc = "polled"
    /\ ~Yields(gPaths.batteryTemperaturePath)
    /\ ~Yields(gPaths.batteryVoltagePath)
    /\ ~Yields(gPaths.batteryTechnologyPath)
    /\ ~Yields(gPaths.batteryHealthPath)
    /\ gPaths.batteryPresentPath # NoPath
    /\ obj.mBatteryTemperature = 0
    /\ obj.mBatteryVoltage = 0
    /\ obj.mBatteryTechnology = Stale.mBatteryTechnology
    /\ obj.mBatteryHealth = Stale.mBatteryHealth

-----------------------------------------------------------------------------
(* C11 *)

\* The family of a now or full file: "charge" or "energy"
FamilyOf(path) == IF path[2] \in {"charge_now", "charge_full"} THEN "charge" ELSE "energy"

\* C11: after discovery, when batteryChargeNowPath and batteryChargeFullPath
\* are both set they name files of the same directory and the same family.
C11_PairOfOneBattery ==
    (pc # "boot" /\ gPaths.batteryChargeNowPath # NoPath
       /\ gPaths.batteryChargeFullPath # NoPath)
        => /\ gPaths.batteryChargeNowPath[1] = gPaths.batteryChargeFullPath[1]
           /\ FamilyOf(gPaths.batteryChargeNowPath) = FamilyOf(gPaths.batteryChargeFullPath)

====
